---- MODULE Spec2Model ----
(***************************************************************************)
(* The notebook example.ipynb: a friction-factor solve (the root of the    *)
(* Colebrook-White residual) nested inside a flow-rate solve (the root of  *)
(* the energy equation), run cell by cell in one kernel.                   *)
(*                                                                         *)
(* Numbers.  A numpy float64 is modelled as a decimal floating point       *)
(* number with a four digit significand, m * 10^e with 1000 <= |m| <= 9999 *)
(* (or m = 0), or one of the IEEE special values nan, +inf, -inf.  The     *)
(* special values follow numpy: x/0 is +-inf, 0/0 is nan, the square root  *)
(* and the logarithm of a negative number are nan, log(0) is -inf, and     *)
(* every comparison with nan is false.  Nothing raises.  Zero carries no   *)
(* sign: a division by zero takes its sign from the numerator alone.      *)
(***************************************************************************)
EXTENDS Integers, Sequences, FiniteSets, TLC

----------------------------------------------------------------------------
(* float64 values *)

NaN == [k |-> "nan", m |-> 0, e |-> 0]
PosInf == [k |-> "inf", m |-> 1, e |-> 0]
NegInf == [k |-> "inf", m |-> -1, e |-> 0]
Zero == [k |-> "num", m |-> 0, e |-> 0]
\* A name that is not bound, or a value not computed yet.
Unset == [k |-> "unset", m |-> 0, e |-> 0]

Abs(i) == IF i < 0 THEN -i ELSE i
Sgn(i) == IF i < 0 THEN -1 ELSE IF i = 0 THEN 0 ELSE 1
Pow10(n) == <<1, 10, 100, 1000, 10000, 100000, 1000000, 10000000, 100000000,
              1000000000>>[n + 1]

\* The number of decimal digits of a positive integer below 2^31.
Digits(a) ==
  IF a < 10 THEN 1 ELSE IF a < 100 THEN 2 ELSE IF a < 1000 THEN 3
  ELSE IF a < 10000 THEN 4 ELSE IF a < 100000 THEN 5 ELSE IF a < 1000000 THEN 6
  ELSE IF a < 10000000 THEN 7 ELSE IF a < 100000000 THEN 8
  ELSE IF a < 1000000000 THEN 9 ELSE 10

\* s * r * 10^x, where rounding may have carried r up to 10000.
Carry(s, r, x) ==
  IF r = 10000 THEN [k |-> "num", m |-> s * 1000, e |-> x + 1]
  ELSE [k |-> "num", m |-> s * r, e |-> x]

\* s * a * 10^x for a positive integer a of d digits, rounded half up.
Round(s, a, d, x) ==
  IF d <= 4 THEN [k |-> "num", m |-> s * a * Pow10(4 - d), e |-> x - (4 - d)]
  ELSE Carry(s, (a + (Pow10(d - 4) \div 2)) \div Pow10(d - 4), x + (d - 4))

\* The float64 nearest to i * 10^x.
Dec(i, x) == IF i = 0 THEN Zero ELSE Round(Sgn(i), Abs(i), Digits(Abs(i)), x)

IsNum(a) == a.k = "num"
IsNaN(a) == a.k = "nan"
IsInf(a) == a.k = "inf"

FNeg(a) == [a EXCEPT !.m = -a.m]
FAbs(a) == [a EXCEPT !.m = Abs(a.m)]

\* a < b on numbers and infinities.
LtOrd(a, b) ==
  CASE IsInf(a) /\ IsInf(b) -> a.m < b.m
    [] IsInf(a) -> a.m < 0
    [] IsInf(b) -> b.m > 0
    [] Sgn(a.m) # Sgn(b.m) -> a.m < b.m
    [] a.m = 0 -> FALSE
    [] a.e = b.e -> a.m < b.m
    [] OTHER -> IF a.m > 0 THEN a.e < b.e ELSE a.e > b.e

\* Python's comparisons: false whenever an operand is nan.
FLt(a, b) == ~IsNaN(a) /\ ~IsNaN(b) /\ LtOrd(a, b)
FEq(a, b) == ~IsNaN(a) /\ ~IsNaN(b) /\ a = b
FLe(a, b) == ~IsNaN(a) /\ ~IsNaN(b) /\ (a = b \/ LtOrd(a, b))
FGe(a, b) == FLe(b, a)
FGt(a, b) == FLt(b, a)

\* hi + lo for numbers other than zero with hi.e >= lo.e.
AddAligned(hi, lo) ==
  IF hi.e - lo.e > 5 THEN hi ELSE Dec(hi.m * Pow10(hi.e - lo.e) + lo.m, lo.e)

FAdd(a, b) ==
  CASE IsNaN(a) \/ IsNaN(b) -> NaN
    [] IsInf(a) /\ IsInf(b) -> IF a.m = b.m THEN a ELSE NaN
    [] IsInf(a) -> a
    [] IsInf(b) -> b
    [] a.m = 0 -> b
    [] b.m = 0 -> a
    [] OTHER -> IF a.e >= b.e THEN AddAligned(a, b) ELSE AddAligned(b, a)

FSub(a, b) == FAdd(a, FNeg(b))

FMul(a, b) ==
  CASE IsNaN(a) \/ IsNaN(b) -> NaN
    [] IsInf(a) \/ IsInf(b) ->
         IF a.m = 0 \/ b.m = 0 THEN NaN
         ELSE IF Sgn(a.m) = Sgn(b.m) THEN PosInf ELSE NegInf
    [] OTHER -> Dec(a.m * b.m, a.e + b.e)

FDiv(a, b) ==
  CASE IsNaN(a) \/ IsNaN(b) -> NaN
    [] IsInf(a) /\ IsInf(b) -> NaN
    [] IsInf(a) -> IF b.m >= 0 THEN a ELSE FNeg(a)
    [] IsInf(b) -> Zero
    [] b.m = 0 -> IF a.m = 0 THEN NaN ELSE IF a.m > 0 THEN PosInf ELSE NegInf
    [] OTHER -> Dec(Sgn(a.m) * Sgn(b.m) * ((Abs(a.m) * 100000) \div Abs(b.m)),
                    a.e - b.e - 5)

\* One step of Newton's iteration for the square root of n.
SqrtNewton(n, t) == (t + n \div t) \div 2

\* The integer square root of n, from a starting point hi above it.
SqrtFloor(n, t) == IF t * t > n THEN t - 1 ELSE t
ISqrt(n, hi) ==
  SqrtFloor(n, SqrtNewton(n, SqrtNewton(n, SqrtNewton(n, SqrtNewton(n,
               SqrtNewton(n, SqrtNewton(n, SqrtNewton(n, hi))))))))

\* x ** 0.5 on a float64: nan below zero.
FSqrt(a) ==
  CASE IsNaN(a) -> NaN
    [] IsInf(a) -> IF a.m > 0 THEN PosInf ELSE NaN
    [] a.m < 0 -> NaN
    [] a.m = 0 -> Zero
    [] a.e % 2 = 0 -> Dec(ISqrt(a.m * 10000, 10000), (a.e - 4) \div 2)
    [] OTHER -> Dec(ISqrt(a.m * 100000, 32000), (a.e - 5) \div 2)

\* One fractional bit of log2: the square of x (a number in [1, 2), counted in
\* 1/10000ths) is 2 or more exactly when the bit is set, and is then halved.
Log2Square(s, y, bit) ==
  IF y >= 20000 THEN [x |-> y \div 2, acc |-> s.acc + bit]
  ELSE [x |-> y, acc |-> s.acc]
Log2Bit(s, bit) == Log2Square(s, (s.x * s.x) \div 10000, bit)

\* The twelve fractional bits of log2(x / 10000) for 10000 <= x < 20000,
\* counted in 1/4096ths.
Log2Frac(x) ==
  Log2Bit(Log2Bit(Log2Bit(Log2Bit(Log2Bit(Log2Bit(Log2Bit(Log2Bit(Log2Bit(
    Log2Bit(Log2Bit(Log2Bit([x |-> x, acc |-> 0], 2048), 1024), 512), 256),
    128), 64), 32), 16), 8), 4), 2), 1).acc

\* log10(m / 1000) * 100000 for 1000 <= m <= 9999: log2 times log10(2).
Log10Halved(m, n) ==
  ((n * 4096 + Log2Frac((m * 10) \div <<1, 2, 4, 8>>[n + 1])) * 30103) \div 4096
Log10Mant(m) ==
  Log10Halved(m, IF m >= 8000 THEN 3 ELSE IF m >= 4000 THEN 2
                 ELSE IF m >= 2000 THEN 1 ELSE 0)

\* np.log10
FLog10(a) ==
  CASE IsNaN(a) -> NaN
    [] IsInf(a) -> IF a.m > 0 THEN PosInf ELSE NaN
    [] a.m < 0 -> NaN
    [] a.m = 0 -> NegInf
    [] OTHER -> Dec((a.e + 3) * 100000 + Log10Mant(a.m), -5)

\* np.log: the natural logarithm, log10(x) * ln(10).
FLog(a) == FMul(FLog10(a), Dec(2303, -3))

One == Dec(1, 0)
Two == Dec(2, 0)

\* x ** 2 and x ** (-2)
FSquare(a) == FMul(a, a)
FPowNeg2(a) == FDiv(One, FMul(a, a))

----------------------------------------------------------------------------
(* The state of the kernel *)

VARIABLES
  nextCell,   \* the first cell that has not run yet (10: all have run)
  top,        \* what the kernel is executing: "idle", "example", "scratch", "flow"
  g_rel_eps,  \* the module-level name rel_eps (bound by cell 4 and by cell 8)
  g_f,        \* the module-level name f (cell 4)
  g_sol,      \* the module-level name sol (cell 4 and cell 9)
  ffs,        \* the friction-factor root finds in progress, innermost last
  outer,      \* the flow-rate root find of cell 9 and its current evaluation
  cnt,        \* evaluations and inner solves started and ended in this flow solve
  out,        \* the value the last friction_factor call handed to the scratch cell
  watch       \* one earlier friction_factor result, kept for comparison

vars == <<nextCell, top, g_rel_eps, g_f, g_sol, ffs, outer, cnt, out, watch>>

----------------------------------------------------------------------------
(* Bounds *)

\* The root finder's iteration limit (scipy's maxiter, 50 in the library).
MaxIter == 8

----------------------------------------------------------------------------
(* Cell 2: global constants *)

G == Dec(981, -2)
RHO == Dec(1000, 0)
MU == Dec(1, -3)

----------------------------------------------------------------------------
(* Cell 3: the Colebrook-White residual and the complete-turbulence limit *)

\* 1/f**0.5 + 2*np.log10(rel_eps/3.7 + 2.51/(re*f**0.5))
colebrook_white(friction_factor, reynolds_number, rel_roughness) ==
  FAdd(FDiv(One, FSqrt(friction_factor)),
       FMul(Two, FLog10(FAdd(FDiv(rel_roughness, Dec(37, -1)),
                             FDiv(Dec(251, -2),
                                  FMul(reynolds_number,
                                       FSqrt(friction_factor)))))))

\* (-2*np.log(rel_eps/3.7))**(-2), with the natural logarithm
colebrook_white_complete_turbulence(rel_roughness) ==
  FPowNeg2(FMul(Dec(-2, 0), FLog(FDiv(rel_roughness, Dec(37, -1)))))

----------------------------------------------------------------------------
(* root_scalar(f, x0=...): with one starting point and no derivative, the  *)
(* secant iteration of scipy.optimize.newton, called with full_output=True *)
(* and disp=False, so that an iteration that does not converge returns its *)
(* last point with converged=False and raises nothing.                     *)

\* newton's tol (xtol of root_scalar), absolute, rtol = 0
SecantTol == Dec(148, -10)
\* The relative and absolute perturbation that gives the second point, at the
\* resolution of the significand.
SecantPerturb == Dec(1, -3)

\* p1 = x0 * (1 + eps) + eps
SecantSecond(x0) == FAdd(FMul(x0, FAdd(One, SecantPerturb)), SecantPerturb)

\* np.isclose(a, b, rtol=0, atol=tol): false on nan, true on equal infinities
IsClose(a, b) ==
  CASE IsNaN(a) \/ IsNaN(b) -> FALSE
    [] IsInf(a) \/ IsInf(b) -> a = b
    [] OTHER -> FLe(FAbs(FSub(a, b)), SecantTol)

\* The secant point through (p0, q0) and (p1, q1), the branch taken by the
\* magnitudes of q0 and q1.
SecantPoint(p0, q0, p1, q1) ==
  IF FGt(FAbs(q1), FAbs(q0))
  THEN FDiv(FAdd(FMul(FNeg(FDiv(q0, q1)), p1), p0), FSub(One, FDiv(q0, q1)))
  ELSE FDiv(FAdd(FMul(FNeg(FDiv(q1, q0)), p0), p1), FSub(One, FDiv(q1, q0)))

SecantTest(p1, p) == [done |-> IsClose(p, p1), p |-> p]

\* One pass of the loop body up to its convergence test: equal residuals end
\* the iteration at the midpoint, a secant point close to p1 ends it there.
SecantStep(p0, q0, p1, q1) ==
  IF q1 = q0 /\ ~IsNaN(q1)
  THEN [done |-> TRUE, p |-> FDiv(FAdd(p1, p0), Two)]
  ELSE SecantTest(p1, SecantPoint(p0, q0, p1, q1))

----------------------------------------------------------------------------
(* Cell 5: friction_factor, as a call frame of the kernel's stack *)

\* The frame of a call that has bound its arguments and done nothing else.
friction_factor_call(re, rel_eps, caller) ==
  [re |-> re, rel_eps |-> rel_eps, caller |-> caller, phase |-> "call",
   x0 |-> Unset, res0 |-> Unset, p0 |-> Unset, q0 |-> Unset, p1 |-> Unset,
   q1 |-> Unset, itr |-> 0, root |-> Unset, converged |-> FALSE]

\* A seed taken from the module-level rel_eps in place of the parameter.
friction_factor_seed_global(re, rel_eps) ==
  colebrook_white_complete_turbulence(g_rel_eps)

\* A seed taken from the last solution f of the notebook.
friction_factor_seed_warm(re, rel_eps) == g_f

\* f_complete = colebrook_white_complete_turbulence(rel_eps)
friction_factor_seed(re, rel_eps) ==
  colebrook_white_complete_turbulence(rel_eps)

\* The two starting points in the order newton keeps them: swapped when the
\* second residual is the smaller in magnitude.
secant_order(fr, a0, r0, a1, r1) ==
  IF FLt(FAbs(r1), FAbs(r0))
  THEN [fr EXCEPT !.phase = "iter", !.x0 = a0, !.res0 = r0,
                  !.p0 = a1, !.q0 = r1, !.p1 = a0, !.q1 = r0]
  ELSE [fr EXCEPT !.phase = "iter", !.x0 = a0, !.res0 = r0,
                  !.p0 = a0, !.q0 = r0, !.p1 = a1, !.q1 = r1]

secant_open(fr, a0, a1) ==
  secant_order(fr, a0, colebrook_white(a0, fr.re, fr.rel_eps),
               a1, colebrook_white(a1, fr.re, fr.rel_eps))

\* The body of friction_factor up to the root finder's loop: the seed, then
\* the residual at the seed and at the perturbed seed.
friction_factor_start(fr) ==
  secant_open(fr, friction_factor_seed(fr.re, fr.rel_eps),
              SecantSecond(friction_factor_seed(fr.re, fr.rel_eps)))

secant_advance(fr, s) ==
  IF s.done
  THEN [fr EXCEPT !.phase = "done", !.root = s.p, !.converged = TRUE]
  ELSE [fr EXCEPT !.p0 = fr.p1, !.q0 = fr.q1, !.p1 = s.p,
                  !.q1 = colebrook_white(s.p, fr.re, fr.rel_eps),
                  !.itr = fr.itr + 1]

\* One iteration of the root finder inside friction_factor; after maxiter
\* iterations the last point is the result, flagged as not converged.
friction_factor_iterate(fr) ==
  IF fr.itr = MaxIter
  THEN [fr EXCEPT !.phase = "done", !.root = fr.p1, !.converged = FALSE]
  ELSE secant_advance(fr, SecantStep(fr.p0, fr.q0, fr.p1, fr.q1))

\* return sol['root']
friction_factor_result(fr) == fr.root

----------------------------------------------------------------------------
(* Cells 6 and 7: total head at the two stations *)

p_1 == Dec(50, 0)
area_1 == FSquare(Dec(1, -2))
z_1 == Zero

\* v = (Q/area)**2 ; p/(RHO*G) + (v)**2/(2*G) + z
station_head(p, area, z, Q) ==
  FAdd(FAdd(FDiv(p, FMul(RHO, G)),
            FDiv(FSquare(FSquare(FDiv(Q, area))), FMul(Two, G))), z)

head_1(Q) == station_head(p_1, area_1, z_1, Q)

p_2 == Zero
area_2 == FSquare(Dec(1, -2))
z_2 == Zero

head_2(Q) == station_head(p_2, area_2, z_2, Q)

----------------------------------------------------------------------------
(* Cell 8: the pipe and its head loss *)

eps == Dec(1, -3)
d_pipe == Dec(10, -2)
\* rel_eps = 1e-3/d_pipe, the value the cell binds to the global name
pipe_rel_eps == FDiv(Dec(1, -3), d_pipe)
length == One
area_pipe == FMul(Dec(3142, -3), FSquare(FDiv(d_pipe, Two)))

\* v = (Q/area_pipe)**2
head_f_v(Q) == FSquare(FDiv(Q, area_pipe))
\* re = RHO*v*d_pipe / MU
head_f_re(Q) == FDiv(FMul(FMul(RHO, head_f_v(Q)), d_pipe), MU)
\* length/d_pipe * v**2/(2*G)*f
head_f_value(Q, f) ==
  FMul(FDiv(FMul(FDiv(length, d_pipe), FSquare(head_f_v(Q))), FMul(Two, G)), f)

----------------------------------------------------------------------------
(* Cell 9: the energy equation and the flow-rate solve *)

\* head_1(Q) - head_2(Q) - head_f(Q)
energy_equation_value(h1, h2, hf) == FSub(FSub(h1, h2), hf)

\* root_scalar(energy_equation, x0=1)
FlowGuess == One

----------------------------------------------------------------------------
(* The kernel: cells run top to bottom the first time, and any cell that   *)
(* has run may be run again, one at a time.                                *)

NoSol == [set |-> FALSE, root |-> Unset, converged |-> FALSE]
NoOuter == [phase |-> "none", p0 |-> Unset, q0 |-> Unset, p1 |-> Unset,
            q1 |-> Unset, itr |-> 0, Q |-> Unset, h1 |-> Unset, h2 |-> Unset,
            f |-> Unset, fconv |-> FALSE, hf |-> Unset]
NoCnt == [evalStarted |-> 0, evalReturned |-> 0, innerStarted |-> 0,
          innerFinished |-> 0]
NoOut == [set |-> FALSE, re |-> Unset, rel_eps |-> Unset, f |-> Unset,
          converged |-> FALSE, src |-> "none"]

\* Arguments tried from the scratch cell at the end of the notebook.
ReInputs == {Dec(-5000, 0), Dec(5000, 0), head_f_re(FlowGuess), Dec(1, 12)}
RelEpsInputs == {Dec(-5, -2), Zero, Dec(1, -2), Dec(5, -2), Dec(15, -1)}

Max(a, b) == IF a >= b THEN a ELSE b

Init ==
  /\ nextCell = 1
  /\ top = "idle"
  /\ g_rel_eps = Unset
  /\ g_f = Unset
  /\ g_sol = NoSol
  /\ ffs = <<>>
  /\ outer = NoOuter
  /\ cnt = NoCnt
  /\ out = NoOut
  /\ watch = NoOut

\* Cells 1, 2, 3, 5, 6, 7: imports, constants and function definitions.
\* Cell 8 also binds the module-level rel_eps to the pipe's value.
RunCell(c) ==
  /\ top = "idle"
  /\ c \in {1, 2, 3, 5, 6, 7, 8}
  /\ c <= nextCell
  /\ nextCell' = Max(nextCell, c + 1)
  /\ g_rel_eps' = IF c = 8 THEN pipe_rel_eps ELSE g_rel_eps
  /\ out' = NoOut
  /\ UNCHANGED <<top, g_f, g_sol, ffs, outer, cnt, watch>>

\* Cell 4: re = 5000, rel_eps = 0.05, then the root of the residual from the
\* complete-turbulence seed.
RunExample ==
  /\ top = "idle"
  /\ 4 <= nextCell
  /\ g_rel_eps' = Dec(5, -2)
  /\ ffs' = <<friction_factor_call(Dec(5000, 0), Dec(5, -2), "example")>>
  /\ top' = "example"
  /\ out' = NoOut
  /\ UNCHANGED <<nextCell, g_f, g_sol, outer, cnt, watch>>

\* friction_factor(re, rel_eps) called from the scratch cell.
CallFrictionFactor(re, rel_eps) ==
  /\ top = "idle"
  /\ nextCell > 5
  /\ ffs' = <<friction_factor_call(re, rel_eps, "scratch")>>
  /\ top' = "scratch"
  /\ out' = NoOut
  /\ UNCHANGED <<nextCell, g_rel_eps, g_f, g_sol, outer, cnt, watch>>

\* The innermost call computes its seed and starts the root finder.
SolveStart ==
  /\ ffs # <<>>
  /\ ffs[Len(ffs)].phase = "call"
  /\ ffs' = [ffs EXCEPT ![Len(ffs)] = friction_factor_start(@)]
  /\ UNCHANGED <<nextCell, top, g_rel_eps, g_f, g_sol, outer, cnt, out, watch>>

\* One iteration of the innermost root find.
RootIterate ==
  /\ ffs # <<>>
  /\ ffs[Len(ffs)].phase = "iter"
  /\ ffs' = [ffs EXCEPT ![Len(ffs)] = friction_factor_iterate(@)]
  /\ UNCHANGED <<nextCell, top, g_rel_eps, g_f, g_sol, outer, cnt, out, watch>>

\* What a finished call hands back.
Done(fr) ==
  [set |-> TRUE, re |-> fr.re, rel_eps |-> fr.rel_eps,
   f |-> friction_factor_result(fr), converged |-> fr.converged,
   src |-> fr.caller]

\* The first result may be kept, at most one.
Remember(fr) == watch' = watch \/ (~watch.set /\ watch' = Done(fr))

\* Cell 4 ends: sol = root_scalar(...), f = sol['root'].
ExampleFinish ==
  /\ top = "example"
  /\ ffs[1].phase = "done"
  /\ g_f' = ffs[1].root
  /\ g_sol' = [set |-> TRUE, root |-> ffs[1].root, converged |-> ffs[1].converged]
  /\ ffs' = <<>>
  /\ top' = "idle"
  /\ nextCell' = Max(nextCell, 5)
  /\ Remember(ffs[1])
  /\ UNCHANGED <<g_rel_eps, outer, cnt, out>>

\* friction_factor returns sol['root'] to the scratch cell.
ScratchReturn ==
  /\ top = "scratch"
  /\ ffs[1].phase = "done"
  /\ out' = Done(ffs[1])
  /\ ffs' = <<>>
  /\ top' = "idle"
  /\ Remember(ffs[1])
  /\ UNCHANGED <<nextCell, g_rel_eps, g_f, g_sol, outer, cnt>>

\* energy_equation(Q) is entered: head_1(Q) and head_2(Q) are computed and
\* head_f(Q) is entered.
EnergyBegin(o, Q) ==
  [o EXCEPT !.Q = Q, !.h1 = head_1(Q), !.h2 = head_2(Q), !.f = Unset,
            !.fconv = FALSE, !.hf = Unset]

\* head_f(Q) computes re and calls friction_factor(re, rel_eps) with the
\* module-level rel_eps of that moment.
head_f_call(Q) == <<friction_factor_call(head_f_re(Q), g_rel_eps, "head_f")>>

\* Cell 9: root_scalar(energy_equation, x0=1) evaluates the residual at x0.
RunFlowSolve ==
  /\ top = "idle"
  /\ 9 <= nextCell
  /\ top' = "flow"
  /\ outer' = EnergyBegin([NoOuter EXCEPT !.phase = "q0", !.p0 = FlowGuess],
                          FlowGuess)
  /\ ffs' = head_f_call(FlowGuess)
  /\ cnt' = [NoCnt EXCEPT !.evalStarted = 1,
                          !.innerStarted = Len(head_f_call(FlowGuess))]
  /\ out' = NoOut
  /\ UNCHANGED <<nextCell, g_rel_eps, g_f, g_sol, watch>>

\* friction_factor returns f to head_f, which returns the head loss.
HeadFReturn ==
  /\ top = "flow"
  /\ ffs # <<>>
  /\ ffs[Len(ffs)].phase = "done"
  /\ outer' = [outer EXCEPT
                 !.f = friction_factor_result(ffs[Len(ffs)]),
                 !.fconv = ffs[Len(ffs)].converged,
                 !.hf = head_f_value(outer.Q, friction_factor_result(ffs[Len(ffs)]))]
  /\ ffs' = SubSeq(ffs, 1, Len(ffs) - 1)
  /\ cnt' = [cnt EXCEPT !.innerFinished = @ + 1]
  /\ UNCHANGED <<nextCell, top, g_rel_eps, g_f, g_sol, out, watch>>

\* The two starting points in the order newton keeps them.
flow_order(o, r) ==
  IF FLt(FAbs(r), FAbs(o.q0))
  THEN [o EXCEPT !.p0 = o.p1, !.q0 = r, !.p1 = o.p0, !.q1 = o.q0]
  ELSE [o EXCEPT !.q1 = r]

flow_next(o, s) ==
  IF s.done
  THEN [o EXCEPT !.phase = "done", !.Q = s.p]
  ELSE [o EXCEPT !.phase = "loop", !.p0 = o.p1, !.q0 = o.q1, !.p1 = s.p,
                 !.q1 = Unset, !.itr = o.itr + 1, !.Q = s.p]

flow_loop(o) == flow_next(o, SecantStep(o.p0, o.q0, o.p1, o.q1))

\* The flow-rate root find takes the residual r of its current trial: the
\* second starting point after the first, then the loop; after maxiter
\* iterations the last point is the result, flagged as not converged.
FlowAdvance(o, r) ==
  CASE o.phase = "q0" ->
         [o EXCEPT !.phase = "q1", !.q0 = r, !.p1 = SecantSecond(o.p0),
                   !.Q = SecantSecond(o.p0)]
    [] o.phase = "q1" -> flow_loop(flow_order(o, r))
    [] OTHER ->
         IF o.itr = MaxIter THEN [o EXCEPT !.phase = "fail", !.q1 = r, !.Q = o.p1]
         ELSE flow_loop([o EXCEPT !.q1 = r])

\* The flow-rate root find asks for the residual at another trial.
FlowContinue(o) ==
  /\ outer' = EnergyBegin(o, o.Q)
  /\ ffs' = head_f_call(o.Q)
  /\ cnt' = [cnt EXCEPT !.evalReturned = @ + 1, !.evalStarted = @ + 1,
                        !.innerStarted = @ + Len(head_f_call(o.Q))]
  /\ UNCHANGED <<nextCell, top, g_sol>>

\* Cell 9 ends: sol is bound to the result, converged or not, and printed.
FlowFinish(o) ==
  /\ g_sol' = [set |-> TRUE, root |-> o.Q, converged |-> o.phase = "done"]
  /\ outer' = NoOuter
  /\ ffs' = <<>>
  /\ cnt' = NoCnt
  /\ top' = "idle"
  /\ nextCell' = Max(nextCell, 10)

\* energy_equation returns head_1(Q) - head_2(Q) - head_f(Q) to the root
\* finder, which either asks for another evaluation or ends.
ResidualReturn ==
  /\ top = "flow"
  /\ ffs = <<>>
  /\ outer.hf # Unset
  /\ \E o \in {FlowAdvance(outer, energy_equation_value(outer.h1, outer.h2, outer.hf))} :
       IF o.phase \in {"done", "fail"} THEN FlowFinish(o) ELSE FlowContinue(o)
  /\ UNCHANGED <<g_rel_eps, g_f, out, watch>>

Next ==
  \/ \E c \in 1..9 : RunCell(c)
  \/ RunExample
  \/ \E re \in ReInputs, rel_eps \in RelEpsInputs : CallFrictionFactor(re, rel_eps)
  \/ SolveStart
  \/ RootIterate
  \/ ExampleFinish
  \/ ScratchReturn
  \/ RunFlowSolve
  \/ HeadFReturn
  \/ ResidualReturn

Spec == Init /\ [][Next]_vars

----------------------------------------------------------------------------
(* Properties *)

\* The friction-factor calls in progress.
Frames == {ffs[i] : i \in DOMAIN ffs}

\* Arguments outside the physical domain: Re <= 0 or rel_eps <= 0.
OutsideDomain(re, rel_eps) == FLe(re, Zero) \/ FLe(rel_eps, Zero)

\* C1: a friction_factor call with Re <= 0 or rel_eps <= 0 is rejected before
\* the seed is computed or the root finder is started, and never returns a
\* value to its caller.
C1_InvalidInputRejected ==
  /\ \A fr \in Frames : OutsideDomain(fr.re, fr.rel_eps) => fr.phase = "call"
  /\ out.set => ~OutsideDomain(out.re, out.rel_eps)

\* C2: a root find that ends without converging never hands back its last
\* trial value: no such value is returned by friction_factor, none is bound
\* as the flow-rate solution, and none is used as the friction factor of a
\* head loss.
C2_UnconvergedNeverReturned ==
  /\ out.set => out.converged
  /\ g_sol.set => g_sol.converged
  /\ outer.f # Unset => outer.fconv

\* C3: the residual the root finder receives for a trial friction factor
\* f <= 0 is a finite number, never nan and never an infinity.
C3_FinitePenaltyOutsideDomain ==
  \A fr \in Frames :
    fr.phase = "iter" =>
      /\ FLe(fr.p0, Zero) => IsNum(fr.q0)
      /\ FLe(fr.p1, Zero) => IsNum(fr.q1)

\* The total head with the velocity v = Q/area entering to the second power.
head_second_power(p, area, z, Q) ==
  FAdd(FAdd(FDiv(p, FMul(RHO, G)),
            FDiv(FSquare(FDiv(Q, area)), FMul(Two, G))), z)

\* C4: the heads computed at the two stations are
\* pressure/(RHO*G) + v^2/(2*G) + elevation with v = Q/area.
C4_HeadVelocitySecondPower ==
  outer.h1 # Unset =>
    /\ outer.h1 = head_second_power(p_1, area_1, z_1, outer.Q)
    /\ outer.h2 = head_second_power(p_2, area_2, z_2, outer.Q)

\* C5: head_f(Q) passes Re = RHO*v*d_pipe/MU with v = Q/area_pipe to the
\* friction-factor solve and returns (length/d_pipe) * v^2/(2*G) * f.
C5_HeadLossVelocityLinearInQ ==
  /\ \A fr \in Frames :
       fr.caller = "head_f" =>
         fr.re = FDiv(FMul(FMul(RHO, FDiv(outer.Q, area_pipe)), d_pipe), MU)
  /\ outer.hf # Unset =>
       outer.hf = FMul(FDiv(FMul(FDiv(length, d_pipe),
                                 FSquare(FDiv(outer.Q, area_pipe))),
                            FMul(Two, G)), outer.f)

\* C6: for 0 < rel_eps <= 0.05 the seed, substituted into the Colebrook-White
\* residual at Re = 1e12, gives a residual within 1e-6 of zero.
C6_SeedSolvesTurbulentLimit ==
  \A fr \in Frames :
    (/\ fr.phase # "call"
     /\ fr.re = Dec(1, 12)
     /\ FGt(fr.rel_eps, Zero)
     /\ FLe(fr.rel_eps, Dec(5, -2)))
    => FLe(FAbs(fr.res0), Dec(1, -6))

\* C7: for Re > 0 the value friction_factor returns is never negative and
\* never greater than 1.
C7_ResultInUnitInterval ==
  (out.set /\ FGt(out.re, Zero)) => (FGe(out.f, Zero) /\ FLe(out.f, One))

\* C8: a friction-factor solve that ends with the arguments of an earlier one
\* ends with the identical result, whatever ran in between.
C8_SameArgumentsSameResult ==
  \A fr \in Frames :
    (fr.phase = "done" /\ watch.set /\ fr.re = watch.re
     /\ fr.rel_eps = watch.rel_eps)
    => friction_factor_result(fr) = watch.f

\* The example of cell 4 is repeated from the scratch cell after cell 8 has
\* rebound the module-level rel_eps.
C8_Witness ==
  \E fr \in Frames :
    /\ fr.phase = "done" /\ fr.caller = "scratch"
    /\ watch.set /\ watch.src = "example"
    /\ fr.re = watch.re /\ fr.rel_eps = watch.rel_eps
    /\ g_rel_eps # fr.rel_eps

\* C9: during a flow solve the inner solves started equal the evaluations of
\* energy_equation started, at most one inner solve is in progress, each is
\* seeded from the complete-turbulence limit of its rel_eps, and an
\* evaluation returns only after its inner solve has finished.
C9_OneFreshInnerSolvePerEvaluation ==
  top = "flow" =>
    /\ cnt.innerStarted = cnt.evalStarted
    /\ Len(ffs) <= 1
    /\ Len(ffs) = cnt.innerStarted - cnt.innerFinished
    /\ cnt.evalReturned <= cnt.innerFinished
    /\ cnt.evalStarted - cnt.evalReturned = 1
    /\ \A fr \in Frames :
         fr.phase # "call" =>
           fr.x0 = colebrook_white_complete_turbulence(fr.rel_eps)

\* The third evaluation of the energy equation, its inner solve iterating.
C9_Witness ==
  /\ top = "flow"
  /\ cnt.evalStarted >= 3
  /\ \E fr \in Frames : fr.phase = "iter" /\ fr.itr >= 1

\* C10: the rel_eps that head_f passes to friction_factor is always the
\* pipe's eps/d_pipe.
C10_HeadLossUsesPipeRoughness ==
  \A fr \in Frames : fr.caller = "head_f" => fr.rel_eps = pipe_rel_eps

====
